---- MODULE Spec2Model ----
(***************************************************************************)
(* Model of hardhat-core's internal/util/scripts-runner.ts: the derivation *)
(* of the runtime arguments and environment of a forked script, and the    *)
(* bridge from the child handle's 'close' / 'error' events to one promise. *)
(*                                                                         *)
(* A JavaScript string is a sequence of one-character strings, so that     *)
(* toLowerCase, includes, endsWith and the regular expression are computed *)
(* character by character.  A nullable value is a sequence of length 0     *)
(* (null) or 1 (the value).                                                *)
(***************************************************************************)
EXTENDS Integers, Sequences, FiniteSets, TLC

VARIABLES
    execArgv,     \* process.execArgv of the host
    env,          \* process.env of the host
    thisModule,   \* __dirname (path segments) and the file name of __filename
    scriptIn,     \* DeriveSpec: the scriptPath given to getTsNodeArgsIfNeeded
    fixedOut,     \* DeriveSpec: <<>> or <<withFixedInspectArg(process.execArgv)>>
    tsNodeOut,    \* DeriveSpec: <<>> or <<getTsNodeArgsIfNeeded(scriptIn)>>
    pc,           \* per invocation: "idle", "import" (awaiting the import) or "forked"
    request,      \* per invocation: <<>> or <<the arguments of the exported call>>
    runArgs,      \* per invocation: <<>> or <<the parameters runScript received>>
    forks,        \* per invocation: the fork() calls it made, in order
    listeners,    \* per child handle: its 'close' and 'error' listener arrays
    promise,      \* per invocation: the promise runScript returned
    emitted,      \* per child handle: the events it has emitted, in order
    logLines,     \* per invocation: the lines written to the debug log for it
    runs,         \* per invocation: how often each of its two handlers ran
    settles       \* per invocation: how often its promise changed state or value

vars == <<execArgv, env, thisModule, scriptIn, fixedOut, tsNodeOut, pc, request,
          runArgs, forks, listeners, promise, emitted, logLines, runs, settles>>

hostVars == <<execArgv, env, thisModule>>
deriveVars == <<scriptIn, fixedOut, tsNodeOut>>
launchVars == <<pc, request, runArgs, forks, listeners, promise, emitted,
                logLines, runs, settles>>

-----------------------------------------------------------------------------
(* Bounds *)

\* Number of runScript / runScriptWithHardhat calls in flight together.
MaxInvocations == 2
\* Longest process.execArgv drawn for the argument derivation.
MaxArgvLen == 2

-----------------------------------------------------------------------------
(* String literals of the source *)

InspectBrkEq == <<"-","-","i","n","s","p","e","c","t","-","b","r","k","=">>
InspectFlag == <<"-","-","i","n","s","p","e","c","t">>
RequireFlag == <<"-","-","r","e","q","u","i","r","e">>
TsNodeRegister == <<"t","s","-","n","o","d","e","/","r","e","g","i","s","t","e","r">>
DotTs == <<".","t","s">>

(* Strings the inputs are drawn from *)

ArgBrk == <<"-","-","i","n","s","p","e","c","t","-","b","r","k","=","9","2","2","9">>
ArgBrkUpper == <<"-","-","I","N","S","P","E","C","T","-","B","R","K","=","9","2","2","9">>
ArgBrkInner == <<"x","-","-","I","n","s","p","e","c","t","-","B","r","k","=","1">>
ArgBrkNoEq == <<"-","-","i","n","s","p","e","c","t","-","b","r","k">>
ArgFoo == <<"-","-","f","o","o">>
ArgTrace == <<"-","-","t","r","a","c","e","-","w","a","r","n","i","n","g","s">>
ArgTsNodeEq == <<"-","-","r","e","q","u","i","r","e","=","t","s","-","n","o","d","e","/","r","e","g","i","s","t","e","r">>
PathJs == <<"r","u","n",".","j","s">>
PathTs == <<"r","u","n",".","t","s">>
PathTsUpper == <<"s","c","r","i","p","t",".","T","S">>
PathTsx == <<"a","p","p",".","t","s","x">>
PathTsxMixed == <<"a","p","p",".","T","s","X">>
PathTsInner == <<"a",".","t","s",".","j","s">>
PathNoDot == <<"a","t","s">>
PathTsxx == <<"a",".","t","s","x","x">>
BaseTs == <<"s","c","r","i","p","t","s","-","r","u","n","n","e","r",".","t","s">>
BaseJs == <<"s","c","r","i","p","t","s","-","r","u","n","n","e","r",".","j","s">>

-----------------------------------------------------------------------------
(* String and array primitives of the runtime *)

UpperLetters == <<"A","B","C","D","E","F","G","H","I","J","K","L","M",
                  "N","O","P","Q","R","S","T","U","V","W","X","Y","Z">>
LowerLetters == <<"a","b","c","d","e","f","g","h","i","j","k","l","m",
                  "n","o","p","q","r","s","t","u","v","w","x","y","z">>

\* One character of String.prototype.toLowerCase.
toLowerChar(c) ==
    IF \E k \in 1..26 : UpperLetters[k] = c
    THEN LowerLetters[CHOOSE k \in 1..26 : UpperLetters[k] = c]
    ELSE c

\* String.prototype.toLowerCase
toLowerCase(s) == [k \in 1..Len(s) |-> toLowerChar(s[k])]

\* String.prototype.includes
includes(s, sub) ==
    \E p \in 0..(Len(s) - Len(sub)) : SubSeq(s, p + 1, p + Len(sub)) = sub

\* String.prototype.endsWith
endsWith(s, suffix) ==
    /\ Len(suffix) <= Len(s)
    /\ SubSeq(s, Len(s) - Len(suffix) + 1, Len(s)) = suffix

\* Array.prototype.includes
arrayIncludes(arr, x) == \E k \in 1..Len(arr) : arr[k] = x

\* /\.tsx?$/i.test(s): at some position a literal ".", then "t" and "s" in
\* either case, then an optional "x" in either case, then the end of input.
matchesTsx(s) ==
    \E p \in 1..Len(s) :
        /\ s[p] = "."
        /\ p + 2 <= Len(s)
        /\ toLowerChar(s[p + 1]) = "t"
        /\ toLowerChar(s[p + 2]) = "s"
        /\ \/ p + 2 = Len(s)
           \/ /\ p + 3 = Len(s)
              /\ toLowerChar(s[p + 3]) = "x"

\* path.join(dirname, "..", ...): each ".." drops the last segment.
RECURSIVE pathJoin(_, _)
pathJoin(dir, parts) ==
    IF parts = <<>> THEN dir
    ELSE IF Head(parts) = ".."
         THEN pathJoin(SubSeq(dir, 1, Len(dir) - 1), Tail(parts))
         ELSE pathJoin(Append(dir, Head(parts)), Tail(parts))

\* The object spread { ...a, ...b }: the keys of both, b's value on a collision.
spread(a, b) ==
    [k \in (DOMAIN a) \cup (DOMAIN b) |-> IF k \in DOMAIN b THEN b[k] ELSE a[k]]

-----------------------------------------------------------------------------
(* The argument derivation *)

\* A fix-up that compares without lowering the case first.
fixIfInspectArgCaseSensitive(arg) ==
    IF includes(arg, InspectBrkEq) THEN InspectFlag ELSE arg

fixIfInspectArg(arg) ==
    IF includes(toLowerCase(arg), InspectBrkEq) THEN InspectFlag ELSE arg

withFixedInspectArg(argv) == [k \in 1..Len(argv) |-> fixIfInspectArg(argv[k])]

\* A derivation whose pattern has no "i" flag.
getTsNodeArgsCaseSensitive(scriptPath, hostArgv, filename) ==
    IF arrayIncludes(hostArgv, TsNodeRegister) THEN <<>>
    ELSE IF (endsWith(scriptPath, DotTs) \/ endsWith(scriptPath, DotTs \o <<"x">>))
            \/ endsWith(filename, DotTs)
         THEN <<RequireFlag, TsNodeRegister>>
         ELSE <<>>

\* getTsNodeArgsIfNeeded(scriptPath), with the process.execArgv and the
\* __filename it reads as parameters.
getTsNodeArgsIfNeeded(scriptPath, hostArgv, filename) ==
    IF arrayIncludes(hostArgv, TsNodeRegister) THEN <<>>
    ELSE IF matchesTsx(scriptPath) \/ endsWith(filename, DotTs)
         THEN <<RequireFlag, TsNodeRegister>>
         ELSE <<>>

-----------------------------------------------------------------------------
(* The script launcher *)

Invocations == 1..MaxInvocations

\* { ...getEnvVariablesMap(hardhatArguments) }: one HARDHAT_<PARAM> variable
\* for every argument that is set.
EnvNameOf == [network |-> "HARDHAT_NETWORK", verbose |-> "HARDHAT_VERBOSE"]
getEnvVariablesMap(hardhatArguments) ==
    [k \in {EnvNameOf[n] : n \in DOMAIN hardhatArguments} |->
        hardhatArguments[CHOOSE n \in DOMAIN hardhatArguments : EnvNameOf[n] = k]]

\* path.join(__dirname, "..", "..", "register")
registerPath(dirname) == pathJoin(dirname, <<"..", "..", "register">>)

\* The loader pair placed ahead of the caller's arguments.
hardhatNodeArgsPairFirst(extraNodeArgs, dirname) ==
    <<RequireFlag, registerPath(dirname)>> \o extraNodeArgs

\* [...extraNodeArgs, "--require", path.join(__dirname, "..", "..", "register")]
hardhatNodeArgs(extraNodeArgs, dirname) ==
    extraNodeArgs \o <<RequireFlag, registerPath(dirname)>>

\* { ...getEnvVariablesMap(hardhatArguments), ...extraEnvVars }
hardhatEnvVars(hardhatArguments, extraEnvVars) ==
    spread(getEnvVariablesMap(hardhatArguments), extraEnvVars)

\* The three segments with the caller's arguments first.
nodeArgsOfExtraFirst(processExecArgv, tsNodeArgs, extraNodeArgs) ==
    extraNodeArgs \o processExecArgv \o tsNodeArgs

\* [...processExecArgv, ...getTsNodeArgsIfNeeded(scriptPath), ...extraNodeArgs]
nodeArgsOf(processExecArgv, tsNodeArgs, extraNodeArgs) ==
    processExecArgv \o tsNodeArgs \o extraNodeArgs

\* A merge in which the inherited environment wins.
envVarsOfInheritedWins(processEnv, extraEnvVars) == spread(extraEnvVars, processEnv)

\* { ...process.env, ...extraEnvVars }
envVarsOf(processEnv, extraEnvVars) == spread(processEnv, extraEnvVars)

\* fork(scriptPath, scriptArgs, { stdio: "inherit", execArgv: nodeArgs, env: envVars })
forkCall(args, hostArgv, hostEnv, filename) ==
    [modulePath |-> args.scriptPath,
     args       |-> args.scriptArgs,
     options    |-> [stdio    |-> "inherit",
                     execArgv |-> nodeArgsOf(withFixedInspectArg(hostArgv),
                                             getTsNodeArgsIfNeeded(args.scriptPath,
                                                                   hostArgv, filename),
                                             args.extraNodeArgs),
                     env      |-> envVarsOf(hostEnv, args.extraEnvVars)]]

\* A promise changes state once: resolve and reject do nothing to a settled one.
Pending == [state |-> "pending", value |-> <<>>]

\* A promise whose resolve and reject overwrite an earlier outcome.
settleUnguarded(p, outcome) == outcome

settle(p, outcome) == IF p.state = "pending" THEN outcome ELSE p

\* A handler that treats a status other than 0 as a failure.
closeOutcomeZeroOnly(status) ==
    IF status = <<0>> THEN [state |-> "fulfilled", value |-> status]
    ELSE [state |-> "rejected", value |-> status]

\* resolve(status)
closeOutcome(status) == [state |-> "fulfilled", value |-> status]

\* reject(error)
errorOutcome(error) == [state |-> "rejected", value |-> <<error>>]

\* A handler that writes no line.
closeLogNone(scriptPath, status) == <<>>

\* log(`Script ${scriptPath} exited with status code ${status}`)
closeLog(scriptPath, status) ==
    << <<"Script ", scriptPath, " exited with status code ", status>> >>

\* log(`Creating Hardhat subprocess to run ${scriptPath}`)
creatingLog(scriptPath) == << <<"Creating Hardhat subprocess to run ", scriptPath>> >>

\* A 'close' listener whose resolve is the one of the first invocation.
closeListenerShared(i, scriptPath) ==
    [once |-> TRUE, scriptPath |-> scriptPath, target |-> 1]

\* childProcess.once("close", (status) => { log(...); resolve(status); }):
\* the closure holds this invocation's scriptPath and resolve.
closeListener(i, scriptPath) ==
    [once |-> TRUE, scriptPath |-> scriptPath, target |-> i]

\* childProcess.once("error", reject): the closure holds this invocation's reject.
errorListener(i) == [once |-> TRUE, target |-> i]

\* A subscription to 'close' alone.
subscribeCloseOnly(i, scriptPath) ==
    [close |-> <<closeListener(i, scriptPath)>>, error |-> <<>>]

\* The two once() subscriptions on the new child handle.
subscribe(i, scriptPath) ==
    [close |-> <<closeListener(i, scriptPath)>>, error |-> <<errorListener(i)>>]

\* EventEmitter: a once() listener is removed before it is called.
afterEmit(ls) == SelectSeq(ls, LAMBDA l : ~l.once)

-----------------------------------------------------------------------------
(* Inputs *)

\* Host processes: runtime arguments, environment, and where this module runs from.
HostArgvs == {<<>>, <<ArgBrkUpper, ArgTrace>>, <<ArgFoo, RequireFlag, TsNodeRegister>>}
HostEnvs == {[HARDHAT_NETWORK |-> "inherited", HARDHAT_VERBOSE |-> "inherited"],
             [HARDHAT_NETWORK |-> "inherited"]}
Modules == {[dirname |-> <<"hardhat", "src", "internal", "util">>, basename |-> BaseTs],
            [dirname |-> <<"hardhat", "internal", "util">>, basename |-> BaseJs]}

EmptyMap == [k \in {} |-> "none"]

\* HardhatArguments values: each parameter set or left undefined.
HardhatArgumentsPool == {EmptyMap, [network |-> "hh"], [network |-> "hh", verbose |-> "hh"]}

ExtraEnvPool == {EmptyMap, [HARDHAT_NETWORK |-> "extra"], [HARDHAT_VERBOSE |-> "extra"]}
ExtraNodeArgsPool == {<<>>, <<ArgFoo>>, <<ArgTrace, ArgFoo>>}

\* Calls of one launch explored in depth.
LaunchCalls ==
    [scriptPath : {PathJs, PathTsUpper, PathTsx}, scriptArgs : {<<"arg">>},
     extraNodeArgs : ExtraNodeArgsPool, extraEnvVars : ExtraEnvPool]
LaunchStatuses == {<<0>>, <<1>>, <<127>>, <<>>}

\* Calls made side by side.
ConcurrentCalls ==
    {[scriptPath |-> PathJs, scriptArgs |-> <<>>, extraNodeArgs |-> <<>>,
      extraEnvVars |-> EmptyMap],
     [scriptPath |-> PathTs, scriptArgs |-> <<"arg">>, extraNodeArgs |-> <<ArgFoo>>,
      extraEnvVars |-> [HARDHAT_NETWORK |-> "extra"]]}
ConcurrentHardhatArguments == {[network |-> "hh"]}
ConcurrentStatuses == {<<0>>, <<1>>}

\* Launch errors, each named by its errno (ENOENT is -2).
Errors == {-2}

\* Arguments and script paths of the argument derivation.
ArgPool == {ArgBrk, ArgBrkUpper, ArgBrkInner, ArgBrkNoEq, InspectFlag, ArgFoo,
            TsNodeRegister, ArgTsNodeEq}
ScriptPathPool == {PathJs, PathTs, PathTsUpper, PathTsx, PathTsxMixed, PathTsInner,
                   PathNoDot, PathTsxx}
ArgvPool == UNION {[1..n -> ArgPool] : n \in 0..MaxArgvLen}

-----------------------------------------------------------------------------
(* Initial states *)

LaunchIdle ==
    /\ pc = [i \in Invocations |-> "idle"]
    /\ request = [i \in Invocations |-> <<>>]
    /\ runArgs = [i \in Invocations |-> <<>>]
    /\ forks = [i \in Invocations |-> <<>>]
    /\ listeners = [i \in Invocations |-> [close |-> <<>>, error |-> <<>>]]
    /\ promise = [i \in Invocations |-> Pending]
    /\ emitted = [i \in Invocations |-> <<>>]
    /\ logLines = [i \in Invocations |-> <<>>]
    /\ runs = [i \in Invocations |-> [close |-> 0, error |-> 0]]
    /\ settles = [i \in Invocations |-> 0]

DeriveIdle ==
    /\ scriptIn = PathJs
    /\ fixedOut = <<>>
    /\ tsNodeOut = <<>>

Init ==
    /\ execArgv \in {<<>>, <<ArgBrkUpper, ArgTrace>>}
    /\ env \in {[HARDHAT_NETWORK |-> "inherited", HARDHAT_VERBOSE |-> "inherited"]}
    /\ thisModule \in Modules
    /\ DeriveIdle
    /\ LaunchIdle

LaunchInit ==
    /\ execArgv \in HostArgvs
    /\ env \in HostEnvs
    /\ thisModule \in Modules
    /\ DeriveIdle
    /\ LaunchIdle

DeriveInit ==
    /\ execArgv \in ArgvPool
    /\ env \in {EmptyMap}
    /\ thisModule \in Modules
    /\ scriptIn \in ScriptPathPool
    /\ fixedOut = <<>>
    /\ tsNodeOut = <<>>
    /\ LaunchIdle

-----------------------------------------------------------------------------
(* Actions *)

\* Invocations are numbered in the order of the calls.
NextToCall(i) ==
    /\ pc[i] = "idle"
    /\ \A j \in Invocations : j < i => pc[j] # "idle"

\* runScript(scriptPath, scriptArgs, extraNodeArgs, extraEnvVars), up to the
\* await of the import.
CallRunScript(i, call) ==
    /\ NextToCall(i)
    /\ request' = [request EXCEPT ![i] =
                      <<[fn |-> "runScript", hardhatArguments |-> EmptyMap, args |-> call]>>]
    /\ runArgs' = [runArgs EXCEPT ![i] = <<call>>]
    /\ pc' = [pc EXCEPT ![i] = "import"]
    /\ UNCHANGED <<hostVars, deriveVars, forks, listeners, promise, emitted,
                   logLines, runs, settles>>

\* runScriptWithHardhat(hardhatArguments, scriptPath, ...): the log line, then
\* the call of runScript, up to the await of the import.
CallRunScriptWithHardhat(i, hardhatArguments, call) ==
    /\ NextToCall(i)
    /\ request' = [request EXCEPT ![i] =
                      <<[fn |-> "runScriptWithHardhat",
                         hardhatArguments |-> hardhatArguments, args |-> call]>>]
    /\ logLines' = [logLines EXCEPT ![i] = @ \o creatingLog(call.scriptPath)]
    /\ runArgs' = [runArgs EXCEPT ![i] =
                      <<[scriptPath    |-> call.scriptPath,
                         scriptArgs    |-> call.scriptArgs,
                         extraNodeArgs |-> hardhatNodeArgs(call.extraNodeArgs,
                                                           thisModule.dirname),
                         extraEnvVars  |-> hardhatEnvVars(hardhatArguments,
                                                          call.extraEnvVars)]>>]
    /\ pc' = [pc EXCEPT ![i] = "import"]
    /\ UNCHANGED <<hostVars, deriveVars, forks, listeners, promise, emitted,
                   runs, settles>>

\* The promise executor, run once the import has resolved: derive the
\* arguments and the environment, fork, subscribe to 'close' and 'error'.
RunScriptBody(i) ==
    /\ pc[i] = "import"
    /\ forks' = [forks EXCEPT ![i] =
                    Append(@, forkCall(runArgs[i][1], execArgv, env, thisModule.basename))]
    /\ listeners' = [listeners EXCEPT ![i] = subscribe(i, runArgs[i][1].scriptPath)]
    /\ pc' = [pc EXCEPT ![i] = "forked"]
    /\ UNCHANGED <<hostVars, deriveVars, request, runArgs, promise, emitted,
                   logLines, runs, settles>>

\* The promise of invocation j after outcome is handed to its resolve or reject.
Settled(j, outcome) == [promise EXCEPT ![j] = settle(@, outcome)]
CountSettle(j, outcome) ==
    [settles EXCEPT ![j] = IF settle(promise[j], outcome) # promise[j] THEN @ + 1 ELSE @]

\* Child handle c emits 'close' with the status; a child closes once.
EmitClose(c, status) ==
    /\ pc[c] = "forked"
    /\ \A k \in 1..Len(emitted[c]) : emitted[c][k].type # "close"
    /\ emitted' = [emitted EXCEPT ![c] = Append(@, [type |-> "close", value |-> status])]
    /\ listeners' = [listeners EXCEPT ![c].close = afterEmit(@)]
    /\ IF listeners[c].close = <<>>
       THEN UNCHANGED <<promise, logLines, runs, settles>>
       ELSE LET l == listeners[c].close[1]
            IN  /\ logLines' = [logLines EXCEPT ![c] = @ \o closeLog(l.scriptPath, status)]
                /\ promise' = Settled(l.target, closeOutcome(status))
                /\ settles' = CountSettle(l.target, closeOutcome(status))
                /\ runs' = [runs EXCEPT ![c].close = @ + 1]
    /\ UNCHANGED <<hostVars, deriveVars, pc, request, runArgs, forks>>

\* Child handle c emits 'error'; a child that is never sent to or killed
\* reports one launch error at most.
EmitError(c, error) ==
    /\ pc[c] = "forked"
    /\ \A k \in 1..Len(emitted[c]) : emitted[c][k].type # "error"
    /\ emitted' = [emitted EXCEPT ![c] = Append(@, [type |-> "error", value |-> <<error>>])]
    /\ listeners' = [listeners EXCEPT ![c].error = afterEmit(@)]
    /\ IF listeners[c].error = <<>>
       THEN UNCHANGED <<promise, runs, settles>>
       ELSE LET l == listeners[c].error[1]
            IN  /\ promise' = Settled(l.target, errorOutcome(error))
                /\ settles' = CountSettle(l.target, errorOutcome(error))
                /\ runs' = [runs EXCEPT ![c].error = @ + 1]
    /\ UNCHANGED <<hostVars, deriveVars, pc, request, runArgs, forks, logLines>>

\* withFixedInspectArg(process.execArgv)
ApplyWithFixedInspectArg ==
    /\ fixedOut = <<>>
    /\ fixedOut' = <<withFixedInspectArg(execArgv)>>
    /\ UNCHANGED <<hostVars, scriptIn, tsNodeOut, launchVars>>

\* getTsNodeArgsIfNeeded(scriptPath)
ApplyGetTsNodeArgsIfNeeded ==
    /\ tsNodeOut = <<>>
    /\ tsNodeOut' = <<getTsNodeArgsIfNeeded(scriptIn, execArgv, thisModule.basename)>>
    /\ UNCHANGED <<hostVars, scriptIn, fixedOut, launchVars>>

-----------------------------------------------------------------------------
(* Specifications *)

\* Several launches side by side.
Next ==
    \E i \in Invocations :
        \/ \E call \in ConcurrentCalls : CallRunScript(i, call)
        \/ \E h \in ConcurrentHardhatArguments, call \in ConcurrentCalls :
               CallRunScriptWithHardhat(i, h, call)
        \/ RunScriptBody(i)
        \/ \E status \in ConcurrentStatuses : EmitClose(i, status)
        \/ \E error \in Errors : EmitError(i, error)

Spec == Init /\ [][Next]_vars

\* Launches side by side, with one call for each exported function.
LiveCalls == {[scriptPath |-> PathTs, scriptArgs |-> <<>>, extraNodeArgs |-> <<ArgFoo>>,
               extraEnvVars |-> EmptyMap]}
LiveStatuses == {<<0>>, <<>>}

LiveInit ==
    /\ execArgv = <<ArgBrk>>
    /\ env = [HARDHAT_NETWORK |-> "inherited"]
    /\ thisModule \in Modules
    /\ DeriveIdle
    /\ LaunchIdle

LiveNext ==
    \E i \in Invocations :
        \/ \E call \in LiveCalls : CallRunScript(i, call)
        \/ \E h \in ConcurrentHardhatArguments, call \in LiveCalls :
               CallRunScriptWithHardhat(i, h, call)
        \/ RunScriptBody(i)
        \/ \E status \in LiveStatuses : EmitClose(i, status)
        \/ \E error \in Errors : EmitError(i, error)

\* The first lifecycle event of child i.
FirstEvent(i) ==
    /\ emitted[i] = <<>>
    /\ \/ \E status \in LiveStatuses : EmitClose(i, status)
       \/ \E error \in Errors : EmitError(i, error)

\* The event loop runs every continuation whose import has resolved, and
\* every child emits at least one of its two events.
LiveSpec ==
    /\ LiveInit
    /\ [][LiveNext]_vars
    /\ \A i \in Invocations : WF_vars(RunScriptBody(i)) /\ WF_vars(FirstEvent(i))

\* One launch, over the wide input pools.
LaunchNext ==
    \/ \E call \in LaunchCalls : CallRunScript(1, call)
    \/ \E h \in HardhatArgumentsPool, call \in LaunchCalls :
           CallRunScriptWithHardhat(1, h, call)
    \/ RunScriptBody(1)
    \/ \E status \in LaunchStatuses : EmitClose(1, status)
    \/ \E error \in Errors : EmitError(1, error)

LaunchSpec == LaunchInit /\ [][LaunchNext]_vars

\* The two pure functions, applied to inputs drawn by the initial state.
DeriveNext == ApplyWithFixedInspectArg \/ ApplyGetTsNodeArgsIfNeeded

DeriveSpec == DeriveInit /\ [][DeriveNext]_vars

-----------------------------------------------------------------------------
(* Vocabulary of the properties *)

Called(i) == request[i] # <<>>
Forked(i) == forks[i] # <<>>
ViaHardhat(i) == Called(i) /\ request[i][1].fn = "runScriptWithHardhat"
CallerArgs(i) == request[i][1].args
ChildOptions(i) == forks[i][1].options
IsSettled(i) == promise[i].state # "pending"
FirstEmitted(i) == emitted[i][1]

\* The loader pair of runScriptWithHardhat: "--require" and the register
\* module two directories above this one.
ExpectedRegisterPath ==
    SubSeq(thisModule.dirname, 1, Len(thisModule.dirname) - 2) \o <<"register">>

\* The lines of invocation i that report an exit.
ExitLines(i) == SelectSeq(logLines[i], LAMBDA line : line[1] = "Script ")
CloseEvents(i) == SelectSeq(emitted[i], LAMBDA e : e.type = "close")

\* c and the lower-case or caseless character d are the same up to case.
SameUpToCase(c, d) ==
    \/ c = d
    \/ \E k \in 1..26 : UpperLetters[k] = c /\ LowerLetters[k] = d

\* The lower-case form of arg contains "--inspect-brk=".
HasInspectBrk(arg) ==
    \E p \in 1..Len(arg) :
        /\ p + Len(InspectBrkEq) - 1 <= Len(arg)
        /\ \A j \in 1..Len(InspectBrkEq) : SameUpToCase(arg[p + j - 1], InspectBrkEq[j])

\* s ends in ".ts" or ".tsx", in any letter case.
HasTsExtension(s) ==
    LET n == Len(s)
        tail(m) == SubSeq(s, n - m + 1, n)
    IN  \/ /\ n >= 3
           /\ \A j \in 1..3 : SameUpToCase(tail(3)[j], <<".", "t", "s">>[j])
        \/ /\ n >= 4
           /\ \A j \in 1..4 : SameUpToCase(tail(4)[j], <<".", "t", "s", "x">>[j])

EnvKeys == {"HARDHAT_NETWORK", "HARDHAT_VERBOSE", "PATH"}

-----------------------------------------------------------------------------
(* Properties *)

\* C1 as stated: for every call of runScriptWithHardhat, the extra runtime
\* arguments handed to runScript start with the pair ("--require", register
\* path), and the caller's extra runtime arguments follow it in their order.
C1_PairAheadOfCallerArgs ==
    \A i \in Invocations :
        ViaHardhat(i) =>
            LET given == runArgs[i][1].extraNodeArgs
                own   == CallerArgs(i).extraNodeArgs
            IN  /\ Len(given) = Len(own) + 2
                /\ given[1] = RequireFlag
                /\ given[2] = ExpectedRegisterPath
                /\ \A k \in 1..Len(own) : given[2 + k] = own[k]

\* C1 amended: for every call of runScriptWithHardhat, the extra runtime
\* arguments handed to runScript, and the tail of the execArgv passed to
\* fork, are the caller's extra runtime arguments in their order followed by
\* the pair ("--require", register path): the pair is appended.
C1_PairAfterCallerArgs ==
    \A i \in Invocations :
        ViaHardhat(i) =>
            LET given == runArgs[i][1].extraNodeArgs
                own   == CallerArgs(i).extraNodeArgs
                n     == Len(own)
            IN  /\ Len(given) = n + 2
                /\ \A k \in 1..n : given[k] = own[k]
                /\ given[n + 1] = RequireFlag
                /\ given[n + 2] = ExpectedRegisterPath
                /\ Forked(i) =>
                       LET passed == ChildOptions(i).execArgv
                           m      == Len(passed)
                       IN  /\ m >= n + 2
                           /\ \A k \in 1..n : passed[m - n - 2 + k] = own[k]
                           /\ passed[m - 1] = RequireFlag
                           /\ passed[m] = ExpectedRegisterPath

C1_Witness ==
    /\ ViaHardhat(1)
    /\ Forked(1)
    /\ CallerArgs(1).extraNodeArgs = <<ArgTrace, ArgFoo>>

\* C2: the promise of an invocation is settled exactly once, by the first
\* event its child emits: fulfilled with the status if that is 'close',
\* rejected with the error if that is 'error'; a later event changes
\* nothing, and each of the two handlers runs at most once.
C2_SettledOnceByFirstEvent ==
    \A i \in Invocations :
        /\ runs[i].close <= 1
        /\ runs[i].error <= 1
        /\ emitted[i] = <<>> => promise[i] = Pending /\ settles[i] = 0
        /\ emitted[i] # <<>> =>
               /\ settles[i] = 1
               /\ promise[i].value = FirstEmitted(i).value
               /\ FirstEmitted(i).type = "close" => promise[i].state = "fulfilled"
               /\ FirstEmitted(i).type = "error" => promise[i].state = "rejected"

C2_Witness ==
    /\ Len(emitted[1]) = 2
    /\ FirstEmitted(1).type = "close"
    /\ emitted[1][2].type = "error"
    /\ promise[1].state = "fulfilled"

\* C3 as stated: an invocation whose outcome is Exited has exactly one exit
\* line in the log, and an invocation whose outcome is LaunchFailed has none.
C3_ExitLineIffExited ==
    \A i \in Invocations :
        /\ promise[i].state = "fulfilled" => Len(ExitLines(i)) = 1
        /\ promise[i].state = "rejected" => Len(ExitLines(i)) = 0

\* C3 amended: an invocation has one exit line in the log, naming its script
\* and the status, for the 'close' event of its child, whether or not an
\* 'error' event settled the promise before; it has none while its child has
\* not closed.  So an Exited outcome always has exactly one exit line.
C3_ExitLinePerClose ==
    \A i \in Invocations :
        /\ Len(ExitLines(i)) = Len(CloseEvents(i))
        /\ Len(ExitLines(i)) <= 1
        /\ \A k \in 1..Len(ExitLines(i)) :
               ExitLines(i)[k] = <<"Script ", CallerArgs(i).scriptPath,
                                   " exited with status code ", CloseEvents(i)[k].value>>
        /\ promise[i].state = "fulfilled" => Len(ExitLines(i)) = 1

C3_Witness ==
    /\ promise[1].state = "rejected"
    /\ Len(emitted[1]) = 2
    /\ emitted[1][2].type = "close"
    /\ Len(ExitLines(1)) = 1

\* C4: the execArgv passed to fork is the fixed-up process.execArgv, then
\* the ts-node arguments derived for scriptPath, then the extra runtime
\* arguments runScript received, with nothing dropped, added or moved.
C4_NodeArgsInOrder ==
    \A i \in Invocations :
        Forked(i) =>
            LET passed == ChildOptions(i).execArgv
                fixed  == withFixedInspectArg(execArgv)
                tsNode == getTsNodeArgsIfNeeded(runArgs[i][1].scriptPath, execArgv,
                                                thisModule.basename)
                extra  == runArgs[i][1].extraNodeArgs
            IN  /\ Len(passed) = Len(fixed) + Len(tsNode) + Len(extra)
                /\ \A k \in 1..Len(fixed) : passed[k] = fixed[k]
                /\ \A k \in 1..Len(tsNode) : passed[Len(fixed) + k] = tsNode[k]
                /\ \A k \in 1..Len(extra) :
                       passed[Len(fixed) + Len(tsNode) + k] = extra[k]

C4_Witness ==
    /\ Forked(1)
    /\ execArgv = <<ArgBrkUpper, ArgTrace>>
    /\ ~ViaHardhat(1)
    /\ ChildOptions(1).execArgv =
           <<InspectFlag, ArgTrace, RequireFlag, TsNodeRegister, ArgTrace, ArgFoo>>

\* C5: withFixedInspectArg returns a sequence as long as its input whose
\* element k is "--inspect" if the lower-case form of input element k
\* contains "--inspect-brk=", and input element k otherwise.
C5_FixedInspectArg ==
    fixedOut # <<>> =>
        LET out == fixedOut[1]
        IN  /\ Len(out) = Len(execArgv)
            /\ \A k \in 1..Len(execArgv) :
                   out[k] = IF HasInspectBrk(execArgv[k]) THEN InspectFlag
                            ELSE execArgv[k]

C5_Witness ==
    /\ execArgv = <<ArgBrkNoEq, ArgBrkInner>>
    /\ fixedOut = << <<ArgBrkNoEq, InspectFlag>> >>

\* C6: getTsNodeArgsIfNeeded returns no argument if process.execArgv holds
\* "ts-node/register"; otherwise ("--require", "ts-node/register") if
\* scriptPath ends in ".ts" or ".tsx" in any letter case or this module's
\* file is a ".ts" file; otherwise no argument.
C6_TsNodeArgs ==
    tsNodeOut # <<>> =>
        LET marker == \E k \in 1..Len(execArgv) : execArgv[k] = TsNodeRegister
            source == thisModule.basename = BaseTs
        IN  tsNodeOut[1] =
                IF marker THEN <<>>
                ELSE IF HasTsExtension(scriptIn) \/ source
                     THEN <<RequireFlag, TsNodeRegister>>
                     ELSE <<>>

C6_Witness ==
    /\ thisModule.basename = BaseJs
    /\ scriptIn = PathTsxMixed
    /\ execArgv = <<ArgTsNodeEq>>
    /\ tsNodeOut = << <<RequireFlag, TsNodeRegister>> >>

\* C7: for every key, the environment passed to fork holds the value of the
\* first of these that defines the key: the caller's extraEnvVars, (for
\* runScriptWithHardhat) the variables derived from the Hardhat arguments,
\* process.env; a key none of them defines is absent.
C7_EnvLastWriterWins ==
    \A i \in Invocations :
        Forked(i) =>
            LET child   == ChildOptions(i).env
                extra   == CallerArgs(i).extraEnvVars
                derived == IF ViaHardhat(i)
                           THEN getEnvVariablesMap(request[i][1].hardhatArguments)
                           ELSE EmptyMap
            IN  \A key \in EnvKeys \cup DOMAIN child :
                    IF key \in DOMAIN extra
                    THEN key \in DOMAIN child /\ child[key] = extra[key]
                    ELSE IF key \in DOMAIN derived
                    THEN key \in DOMAIN child /\ child[key] = derived[key]
                    ELSE IF key \in DOMAIN env
                    THEN key \in DOMAIN child /\ child[key] = env[key]
                    ELSE key \notin DOMAIN child

C7_Witness ==
    /\ Forked(1)
    /\ ViaHardhat(1)
    /\ env = [HARDHAT_NETWORK |-> "inherited", HARDHAT_VERBOSE |-> "inherited"]
    /\ ChildOptions(1).env = [HARDHAT_NETWORK |-> "extra", HARDHAT_VERBOSE |-> "hh"]

\* C8: when 'close' is the first event of the child, the promise is
\* fulfilled with the status of that event as it is, be it 0, another code
\* or null, and no status or later event turns it into a rejection.
C8_StatusVerbatim ==
    \A i \in Invocations :
        (emitted[i] # <<>> /\ FirstEmitted(i).type = "close") =>
            promise[i] = [state |-> "fulfilled", value |-> FirstEmitted(i).value]

C8_Witness ==
    /\ Len(emitted[1]) = 2
    /\ FirstEmitted(1) = [type |-> "close", value |-> <<>>]
    /\ promise[1] = [state |-> "fulfilled", value |-> <<>>]

\* C9: with several invocations in flight, each forks one child of its own,
\* for its own script with its own arguments and environment, and its promise
\* is pending until its own child emits an event and is then settled by the
\* first event of its own child, whatever the other children emit.
C9_InvocationsIndependent ==
    \A i \in Invocations :
        /\ Len(forks[i]) = IF pc[i] = "forked" THEN 1 ELSE 0
        /\ Forked(i) =>
               LET passed == ChildOptions(i).execArgv
                   extra  == runArgs[i][1].extraNodeArgs
               IN  /\ forks[i][1].modulePath = CallerArgs(i).scriptPath
                   /\ forks[i][1].args = CallerArgs(i).scriptArgs
                   /\ Len(passed) >= Len(extra)
                   /\ SubSeq(passed, Len(passed) - Len(extra) + 1, Len(passed)) = extra
                   /\ \A key \in DOMAIN CallerArgs(i).extraEnvVars :
                          ChildOptions(i).env[key] = CallerArgs(i).extraEnvVars[key]
        /\ emitted[i] = <<>> => promise[i] = Pending
        /\ emitted[i] # <<>> =>
               promise[i] = [state |-> IF FirstEmitted(i).type = "close"
                                       THEN "fulfilled" ELSE "rejected",
                             value |-> FirstEmitted(i).value]

C9_Witness ==
    /\ Called(1) /\ Called(2)
    /\ CallerArgs(1).scriptPath # CallerArgs(2).scriptPath
    /\ pc[1] = "forked" /\ emitted[1] = <<>> /\ promise[1] = Pending
    /\ Len(emitted[2]) = 2
    /\ promise[2] = [state |-> "fulfilled", value |-> <<1>>]

\* C10: an invocation is pending, with at most one child, for as long as its
\* child has emitted no event; once called it is eventually settled, given
\* that its child emits at least one event; and a settled promise keeps its
\* outcome.
C10_PendingUntilEventThenSettled ==
    /\ [](\A i \in Invocations :
              /\ Len(forks[i]) <= 1
              /\ emitted[i] = <<>> => promise[i] = Pending)
    /\ \A i \in Invocations : Called(i) ~> IsSettled(i)
    /\ [][\A i \in Invocations : IsSettled(i) => promise'[i] = promise[i]]_vars

C10_Witness ==
    /\ pc[1] = "forked" /\ emitted[1] = <<>> /\ promise[1] = Pending
    /\ IsSettled(2)
    /\ Len(emitted[2]) = 2

====
